---- MODULE Spec2Model ----
(***************************************************************************)
(* header.js: the shared page header, the cached name index and the        *)
(* debounced search box, as a state machine over the browser's event loop. *)
(* One action is one task of the event loop (an event handler, a timer     *)
(* callback, a settled fetch) together with the microtasks it starts.      *)
(* Strings the code inspects (names, queries, file names) are sequences of *)
(* one-character strings.                                                  *)
(***************************************************************************)
EXTENDS Integers, Sequences, FiniteSets, TLC

VARIABLES
  pathname,             \* window.location.pathname
  pokedexFile,          \* what data/pokedex.json holds on the server
  rootHeight,           \* the height header.html's root is rendered with, in px
  headers,              \* header elements of document.body, in document order
  paddingTop,           \* document.body's top padding, in px
  headerReqs,           \* installHeaderFromFile calls awaiting header.html
  clickAway,            \* the document-wide click listener is installed
  initPc,               \* position of the DOMContentLoaded handler
  searchPokedex,        \* window._searchPokedex
  calls,                \* loadSearchPokedex calls suspended at an await
  timers,               \* pending setTimeout callbacks
  searchDebounceTimer,  \* _searchDebounceTimer
  location,             \* window.location.href once a navigation started
  quiet,                \* ms since the last input event, saturating at Debounce
  event,                \* the handler that ran last
  fetchCount,           \* fetches of data/pokedex.json issued so far
  lateFetches,          \* those issued after a loadSearchPokedex call had settled
  lastLoad,             \* how the last loadSearchPokedex call settled
  returned,             \* the mappings handed to callers that had to fetch
  burst,                \* the current burst of input events: none, one, many
  burstEvals,           \* evaluations run since the current burst began
  lastEval,             \* what the last debounced evaluation read
  lastRender            \* what the last rendered match list was computed from

vars == <<pathname, pokedexFile, rootHeight, headers, paddingTop, headerReqs, clickAway, initPc,
          searchPokedex, calls, timers, searchDebounceTimer, location, quiet,
          event, fetchCount, lateFetches, lastLoad, returned, burst,
          burstEvals, lastEval, lastRender>>

----------------------------------------------------------------------------
(* Bounds of the model. *)

MaxCalls == 2
MaxInstalls == 2
TickMs == 60

(* Constants of the program. *)

Debounce == 120
ResultCap == 15
DefaultHeight == 68
HeaderMargin == 8

----------------------------------------------------------------------------
(* Strings. *)

Min(a, b) == IF a < b THEN a ELSE b

\* String.prototype.toLowerCase, one character
LowerChar(c) ==
  CASE c = "A" -> "a"
    [] c = "B" -> "b"
    [] c = "M" -> "m"
    [] OTHER -> c

\* String.prototype.toLowerCase
ToLowerCase(s) == [i \in 1..Len(s) |-> LowerChar(s[i])]

IsSpace(c) == c = " "

RECURSIVE TrimStart(_)
TrimStart(s) ==
  IF s # <<>> /\ IsSpace(Head(s)) THEN TrimStart(Tail(s)) ELSE s

RECURSIVE TrimEnd(_)
TrimEnd(s) ==
  IF s # <<>> /\ IsSpace(s[Len(s)]) THEN TrimEnd(SubSeq(s, 1, Len(s) - 1)) ELSE s

\* String.prototype.trim
Trim(s) == TrimEnd(TrimStart(s))

\* String.prototype.startsWith
StartsWith(s, p) == Len(p) <= Len(s) /\ SubSeq(s, 1, Len(p)) = p

\* String.prototype.includes
Includes(s, q) ==
  \E i \in 0..(Len(s) - Len(q)) : SubSeq(s, i + 1, i + Len(q)) = q

\* encodeURIComponent, one character: letters, digits and - _ . ! ~ * ' ( )
\* are kept, everything else becomes its %XX escape
EncodeChar(c) ==
  CASE c = " " -> <<"%", "2", "0">>
    [] c = "%" -> <<"%", "2", "5">>
    [] c = "/" -> <<"%", "2", "F">>
    [] OTHER -> <<c>>

RECURSIVE EncodeURIComponent(_)
EncodeURIComponent(s) ==
  IF s = <<>> THEN <<>> ELSE EncodeChar(Head(s)) \o EncodeURIComponent(Tail(s))

\* the character a %XX escape stands for
Unescape(h, l) ==
  CASE h = "2" /\ l = "0" -> " "
    [] h = "2" /\ l = "5" -> "%"
    [] h = "2" /\ l = "F" -> "/"
    [] OTHER -> "?"

RECURSIVE DecodeURIComponent(_)
DecodeURIComponent(s) ==
  IF s = <<>> THEN <<>>
  ELSE IF Head(s) = "%" /\ Len(s) >= 3
       THEN <<Unescape(s[2], s[3])>> \o DecodeURIComponent(SubSeq(s, 4, Len(s)))
       ELSE <<Head(s)>> \o DecodeURIComponent(Tail(s))

----------------------------------------------------------------------------
(* Values of window._searchPokedex: null, or a mapping, kept as the sequence *)
(* of its keys in Object.keys order.  A mapping is truthy even when empty.   *)

NullValue == [null |-> TRUE, keys |-> <<>>]

Mapping(keys) == [null |-> FALSE, keys |-> keys]

EmptyMapping == Mapping(<<>>)

Truthy(v) == ~v.null

(* The name indexes the server may hold. *)

BigLen == 22

Tags ==
  <<"c", "d", "e", "f", "g", "h", "i", "j", "k", "l", "n", "o", "p",
    "q", "r", "s", "t", "u", "v", "w", "x", "y", "0", "1", "2", "3">>

SpecialNames ==
  << <<"M", "r", " ", "a", "B">>, <<"b", "a">>, <<"a", "x", "b">>, <<"A", "B", "m">> >>

TaggedName(i) ==
  CASE i % 4 = 0 -> <<"a", Tags[i], "b">>
    [] i % 4 = 1 -> <<"A", "b", Tags[i]>>
    [] OTHER -> <<Tags[i], "a", "B">>

BigIndex == SpecialNames \o [i \in 1..BigLen |-> TaggedName(i)]

SmallIndex == << <<"b", "a">>, <<"c", "A", "b">>, <<"a", "b", " ", "c">> >>

\* the page session runs on the big one: some queries match more than
\* ResultCap of its names, some only a few
Indexes == {BigIndex}

(* What the user may type into the search box. *)

Queries == { <<>>, <<" ">>, <<" ", "A", "b", " ">>, <<"M">> }

----------------------------------------------------------------------------
(* searchPokemon's filter and renderSearchResults. *)

MatchesCaseSensitive(pokedex, raw) ==
  LET hits == SelectSeq(pokedex.keys, LAMBDA name : Includes(name, raw))
  IN  SubSeq(hits, 1, Min(ResultCap, Len(hits)))

\* names.filter(name => name.toLowerCase().includes(raw)).slice(0, 15)
Matches(pokedex, raw) ==
  LET hits == SelectSeq(pokedex.keys, LAMBDA name : Includes(ToLowerCase(name), raw))
  IN  SubSeq(hits, 1, Min(ResultCap, Len(hits)))

\* one <div class="result" data-name="...">name</div>
ResultRow(name) == [name |-> name, data |-> EncodeURIComponent(name)]

RenderEmptyKeepsRows(hs) ==
  [hs EXCEPT ![1].display = "none", ![1].ariaHidden = "true"]

\* renderSearchResults with no matches: hide and empty the container
RenderEmpty(hs) ==
  [hs EXCEPT ![1].display = "none", ![1].rows = <<>>, ![1].ariaHidden = "true"]

\* renderSearchResults(matches); the container is the first #search-results
RenderSearchResults(hs, matches) ==
  IF hs = <<>> THEN hs
  ELSE IF matches = <<>> THEN RenderEmpty(hs)
  ELSE [hs EXCEPT ![1].rows = [i \in 1..Len(matches) |-> ResultRow(matches[i])],
                  ![1].display = "block",
                  ![1].ariaHidden = "false"]

----------------------------------------------------------------------------
(* setActiveHeaderLink. *)

S_info == <<"i", "n", "f", "o">>
S_index == <<"i", "n", "d", "e", "x">>
S_moves == <<"m", "o", "v", "e", "s">>
S_movedescriptions ==
  <<"m", "o", "v", "e", "d", "e", "s", "c", "r", "i", "p", "t", "i", "o", "n", "s">>
S_locations == <<"l", "o", "c", "a", "t", "i", "o", "n", "s">>
S_trainer == <<"t", "r", "a", "i", "n", "e", "r">>
S_trainers == <<"t", "r", "a", "i", "n", "e", "r", "s">>
S_encounters == <<"e", "n", "c", "o", "u", "n", "t", "e", "r", "s">>
S_abilities == <<"a", "b", "i", "l", "i", "t", "i", "e", "s">>
S_index_html == <<"i", "n", "d", "e", "x", ".", "h", "t", "m", "l">>

LinkIds == {"link-info", "link-pokedex", "link-moves", "link-locations", "link-abilities"}

\* pathname.split("/").pop(): what follows the last "/"
RECURSIVE LastSegment(_)
LastSegment(p) ==
  IF \E i \in 1..Len(p) : p[i] = "/"
  THEN LastSegment(Tail(p))
  ELSE p

\* window.location.pathname.split("/").pop() || "index.html"
PageFile(p) == IF LastSegment(p) = <<>> THEN S_index_html ELSE LastSegment(p)

ActiveLinkMovesOnly(path) ==
  IF StartsWith(path, S_info) THEN "link-info"
  ELSE IF StartsWith(path, S_index) \/ path = <<>> THEN "link-pokedex"
  ELSE IF StartsWith(path, S_moves) THEN "link-moves"
  ELSE IF StartsWith(path, S_locations) \/ StartsWith(path, S_trainer)
          \/ StartsWith(path, S_trainers) \/ StartsWith(path, S_encounters)
       THEN "link-locations"
  ELSE IF StartsWith(path, S_abilities) THEN "link-abilities"
  ELSE "link-pokedex"

\* the if / else-if chain of setActiveHeaderLink
ActiveLinkFor(path) ==
  IF StartsWith(path, S_info) THEN "link-info"
  ELSE IF StartsWith(path, S_index) \/ path = <<>> THEN "link-pokedex"
  ELSE IF StartsWith(path, S_moves) \/ StartsWith(path, S_movedescriptions)
       THEN "link-moves"
  ELSE IF StartsWith(path, S_locations) \/ StartsWith(path, S_trainer)
          \/ StartsWith(path, S_trainers) \/ StartsWith(path, S_encounters)
       THEN "link-locations"
  ELSE IF StartsWith(path, S_abilities) THEN "link-abilities"
  ELSE "link-pokedex"

\* document.getElementById(id) for a nav link: the first header holding it, or 0
LinkHolder(hs, id) ==
  IF \E i \in 1..Len(hs) : id \in hs[i].links
  THEN CHOOSE i \in 1..Len(hs) :
         id \in hs[i].links /\ \A j \in 1..(i - 1) : id \notin hs[j].links
  ELSE 0

ClearActiveAllOrNothing(hs) ==
  IF \A id \in LinkIds : LinkHolder(hs, id) # 0
  THEN [i \in 1..Len(hs) |->
          [hs[i] EXCEPT !.active = @ \ {id \in LinkIds : LinkHolder(hs, id) = i}]]
  ELSE hs

\* lines 71-74: classList.remove("active") on each of the five links found
ClearActive(hs) ==
  [i \in 1..Len(hs) |->
     [hs[i] EXCEPT !.active = @ \ {id \in LinkIds : LinkHolder(hs, id) = i}]]

\* if (el) el.classList.add("active")
MarkActive(hs, id) ==
  [i \in 1..Len(hs) |->
     [hs[i] EXCEPT !.active = IF LinkHolder(hs, id) = i THEN @ \cup {id} ELSE @]]

SetActiveHeaderLink(hs, p) == MarkActive(ClearActive(hs), ActiveLinkFor(PageFile(p)))

----------------------------------------------------------------------------
(* The document. *)

\* a header element as inserted: its #search input, its #search-results
\* container and its nav links; style.display "" is an unset inline style
NewHeader(kind, links) ==
  [kind |-> kind, value |-> <<>>, rows |-> <<>>, display |-> "",
   ariaHidden |-> "true", inputWired |-> FALSE, keyWired |-> FALSE,
   links |-> links, active |-> {}, height |-> 0]

NoNav == [nav |-> FALSE, name |-> <<>>]

\* window.location.href = `pokemon.html?name=${encoded}`
DetailUrl(encoded) == [nav |-> TRUE, name |-> encoded]

\* the page is still there: no navigation has replaced it
Live == ~location.nav

\* document.querySelector("#search-results .result"): the header whose
\* container holds the first result row of the document, or 0
FirstResultHolder(hs) ==
  IF \E i \in 1..Len(hs) : hs[i].rows # <<>>
  THEN CHOOSE i \in 1..Len(hs) :
         hs[i].rows # <<>> /\ \A j \in 1..(i - 1) : hs[j].rows = <<>>
  ELSE 0

\* a result row's click listener, lines 38-41
RowClickUrl(row) == DetailUrl(EncodeURIComponent(DecodeURIComponent(row.data)))

\* the heights getBoundingClientRect may report for the inserted root, in px
Heights == {0, 40, 90}

PaddingAtMost(current, height) ==
  LET headerHeight == IF height = 0 THEN DefaultHeight ELSE height
  IN  IF current <= headerHeight THEN headerHeight + HeaderMargin ELSE current

\* lines 112-116: the body's top padding once the root of height px is in
EnsurePadding(current, height) ==
  LET headerHeight == IF height = 0 THEN DefaultHeight ELSE height
  IN  IF current < headerHeight THEN headerHeight + HeaderMargin ELSE current

\* lines 109-144 without the padding: the fetched root, height px high, goes
\* first, its search input gets both listeners, the active link is recomputed
InsertFetched(hs, p, height) ==
  SetActiveHeaderLink(
    <<[NewHeader("fetched", LinkIds) EXCEPT !.inputWired = TRUE, !.keyWired = TRUE,
                                            !.height = height]>>
      \o hs, p)

\* lines 149-164: the synthesized header goes first, its search input gets
\* the input listener only
InsertFallback(hs, p) ==
  SetActiveHeaderLink(
    <<[NewHeader("fallback", {}) EXCEPT !.inputWired = TRUE]>> \o hs, p)

----------------------------------------------------------------------------
(* loadSearchPokedex. *)

envVars == <<pathname, pokedexFile, rootHeight>>

loaderVars == <<searchPokedex, calls, fetchCount, lateFetches, lastLoad, returned>>

debVars == <<timers, searchDebounceTimer, quiet, burst, burstEvals, lastEval>>

IsCachedNever == FALSE

\* line 13: if (window._searchPokedex)
IsCached == Truthy(searchPokedex)

LoadCatchRethrows ==
  [settled |-> "rejected", value |-> NullValue, cache |-> searchPokedex]

\* lines 19-23: the catch block
LoadCatch ==
  [settled |-> "resolved", value |-> EmptyMapping, cache |-> EmptyMapping]

\* lines 17-18: the parsed body is cached and returned
LoadParsed(data) == [settled |-> "resolved", value |-> data, cache |-> data]

NoLoad == [outcome |-> "none", settled |-> "none", value |-> NullValue]

NoRender == [some |-> FALSE, raw |-> <<>>, pokedex |-> NullValue]

NoEval == [some |-> FALSE, raw |-> <<>>, called |-> FALSE]

\* line 13, taken: the cached mapping is returned
ReturnCached ==
  /\ lastLoad' = [outcome |-> "cached", settled |-> "resolved", value |-> searchPokedex]
  /\ UNCHANGED <<searchPokedex, calls, fetchCount, lateFetches, returned>>

\* line 15: the call fetches data/pokedex.json and suspends
IssueFetch(c) ==
  /\ calls' = Append(calls, c)
  /\ fetchCount' = fetchCount + 1
  /\ lateFetches' = IF lastLoad.outcome # "none" THEN lateFetches + 1 ELSE lateFetches
  /\ UNCHANGED <<searchPokedex, lastLoad, returned>>

\* lines 172-174: the DOMContentLoaded handler goes on to preload the index
CallPreload ==
  IF IsCached
  THEN /\ initPc' = "done"
       /\ ReturnCached
  ELSE /\ initPc' = "index"
       /\ IssueFetch([caller |-> "preload", stage |-> "fetch", raw |-> <<>>])

\* what runs once installHeaderFromFile's promise has resolved
AfterInstall(caller) ==
  IF caller = "domready" THEN CallPreload ELSE UNCHANGED <<initPc, loaderVars>>

\* lines 62-64 and 174: the caller of a settled loadSearchPokedex goes on
Resume(c, r) ==
  IF c.caller = "preload"
  THEN /\ initPc' = (IF r.settled = "resolved" THEN "done" ELSE "failed")
       /\ UNCHANGED <<headers, lastRender>>
  ELSE /\ IF r.settled = "resolved"
          THEN /\ headers' = RenderSearchResults(headers, Matches(r.value, c.raw))
               /\ lastRender' = [some |-> TRUE, raw |-> c.raw, pokedex |-> r.value]
          ELSE UNCHANGED <<headers, lastRender>>
       /\ UNCHANGED initPc

Remove(seq, i) == SubSeq(seq, 1, i - 1) \o SubSeq(seq, i + 1, Len(seq))

\* call i of loadSearchPokedex settles as r
Settle(i, r, outcome) ==
  /\ searchPokedex' = r.cache
  /\ calls' = Remove(calls, i)
  /\ lastLoad' = [outcome |-> outcome, settled |-> r.settled, value |-> r.value]
  /\ returned' = returned \cup {r.value}
  /\ Resume(calls[i], r)
  /\ UNCHANGED <<fetchCount, lateFetches>>

----------------------------------------------------------------------------
(* Page load: the DOMContentLoaded handler and installHeaderFromFile. *)

MainPath == <<"/", "m", "o", "v", "e", "s", ".", "h", "t", "m", "l">>

\* the script has run: window._searchPokedex = null, no timer, no listener
FreshScript ==
  /\ headerReqs = <<>>
  /\ clickAway = FALSE
  /\ initPc = "idle"
  /\ searchPokedex = NullValue
  /\ calls = <<>>
  /\ timers = {}
  /\ searchDebounceTimer = 0
  /\ location = NoNav
  /\ quiet = Debounce
  /\ event = "none"
  /\ fetchCount = 0
  /\ lateFetches = 0
  /\ lastLoad = NoLoad
  /\ returned = {}
  /\ burst = "none"
  /\ burstEvals = 0
  /\ lastEval = NoEval
  /\ lastRender = NoRender

Init ==
  /\ pathname = MainPath
  /\ pokedexFile \in Indexes
  /\ rootHeight = 40
  /\ headers = <<>>
  /\ paddingTop = 0
  /\ FreshScript

\* the navigation replaces the document: its elements, its timers, its
\* pending fetches and the script's variables are gone
Unload(url) ==
  /\ location' = url
  /\ headers' = <<>>
  /\ paddingTop' = 0
  /\ headerReqs' = <<>>
  /\ clickAway' = FALSE
  /\ initPc' = "unloaded"
  /\ searchPokedex' = NullValue
  /\ calls' = <<>>
  /\ timers' = {}
  /\ searchDebounceTimer' = 0
  /\ quiet' = Debounce
  /\ fetchCount' = 0
  /\ lateFetches' = 0
  /\ lastLoad' = NoLoad
  /\ returned' = {}
  /\ burst' = "none"
  /\ burstEvals' = 0
  /\ lastEval' = NoEval
  /\ lastRender' = NoRender
  /\ UNCHANGED envVars

DomReadyNoAwait ==
  /\ Live
  /\ initPc = "idle"
  /\ event' = "other"
  /\ headerReqs' = Append(headerReqs, [caller |-> "page", stage |-> "fetch"])
  /\ CallPreload
  /\ UNCHANGED <<envVars, headers, paddingTop, clickAway, debVars, location, lastRender>>

\* lines 169-170 and 91-98: the handler calls installHeaderFromFile, which
\* returns at once when a header is there and fetches header.html otherwise
DomReady ==
  /\ Live
  /\ initPc = "idle"
  /\ event' = "other"
  /\ IF headers # <<>>
     THEN /\ headers' = SetActiveHeaderLink(headers, pathname)
          /\ CallPreload
          /\ UNCHANGED headerReqs
     ELSE /\ headerReqs' = Append(headerReqs, [caller |-> "domready", stage |-> "fetch"])
          /\ initPc' = "header"
          /\ UNCHANGED <<headers, loaderVars>>
  /\ UNCHANGED <<envVars, paddingTop, clickAway, debVars, location, lastRender>>

\* lines 98-102 and 146-165: header.html's response arrives; a response that
\* is not OK, or none at all, ends in the catch, which builds the fallback
HeaderResponse(i, outcome) ==
  /\ Live
  /\ headerReqs[i].stage = "fetch"
  /\ event' = "other"
  /\ IF outcome = "ok"
     THEN /\ headerReqs' = [headerReqs EXCEPT ![i].stage = "text"]
          /\ UNCHANGED <<headers, initPc, loaderVars>>
     ELSE /\ headerReqs' = Remove(headerReqs, i)
          /\ headers' = InsertFallback(headers, pathname)
          /\ AfterInstall(headerReqs[i].caller)
  /\ UNCHANGED <<envVars, paddingTop, clickAway, debVars, location, lastRender>>

\* lines 103-145: header.html's body arrives, with a root element or without;
\* a body that fails to arrive ends in the catch
HeaderText(i, outcome) ==
  /\ Live
  /\ headerReqs[i].stage = "text"
  /\ event' = "other"
  /\ headerReqs' = Remove(headerReqs, i)
  /\ CASE outcome = "root" ->
            /\ headers' = InsertFetched(headers, pathname, rootHeight)
            /\ paddingTop' = EnsurePadding(paddingTop, rootHeight)
            /\ clickAway' = TRUE
       [] outcome = "noroot" ->
            UNCHANGED <<headers, paddingTop, clickAway>>
       [] OTHER ->
            /\ headers' = InsertFallback(headers, pathname)
            /\ UNCHANGED <<paddingTop, clickAway>>
  /\ AfterInstall(headerReqs[i].caller)
  /\ UNCHANGED <<envVars, debVars, location, lastRender>>

----------------------------------------------------------------------------
(* The search box: searchPokemon, its timer and the index fetch. *)

ClearNothing(ts, id) == ts

\* clearTimeout(id)
ClearTimeout(ts, id) == {t \in ts : t.id # id}

\* the id setTimeout hands out: the least one no pending timer has
FreshTimerId(ts) ==
  CHOOSE n \in 1..(Cardinality(ts) + 1) :
    /\ \A t \in ts : t.id # n
    /\ \A m \in 1..(n - 1) : \E t \in ts : t.id = m

\* lines 48-66: cancel the pending evaluation, schedule a new one; the timer
\* keeps qEl, the first #search of the document at this moment
SearchPokemon ==
  IF headers = <<>>
  THEN UNCHANGED <<timers, searchDebounceTimer>>
  ELSE LET kept == IF searchDebounceTimer # 0
                   THEN ClearTimeout(timers, searchDebounceTimer)
                   ELSE timers
           id == FreshTimerId(kept)
       IN  /\ timers' = kept \cup {[id |-> id, el |-> Len(headers), remaining |-> Debounce]}
           /\ searchDebounceTimer' = id

\* the user changes the text of the first search input; a timer that is due
\* runs before an event that arrives later
Input(v) ==
  /\ Live
  /\ headers # <<>>
  /\ v # headers[1].value
  /\ \A t \in timers : t.remaining > 0
  /\ event' = "other"
  /\ headers' = [headers EXCEPT ![1].value = v]
  /\ IF headers[1].inputWired
     THEN /\ SearchPokemon
          /\ quiet' = 0
          /\ burst' = IF quiet >= Debounce THEN "one" ELSE "many"
          /\ burstEvals' = IF quiet >= Debounce THEN 0 ELSE burstEvals
          /\ UNCHANGED lastEval
     ELSE UNCHANGED debVars
  /\ UNCHANGED <<envVars, paddingTop, headerReqs, clickAway, initPc, loaderVars,
                 location, lastRender>>

\* TickMs pass; a due timer runs first
Tick ==
  /\ Live
  /\ \A t \in timers : t.remaining > 0
  /\ timers # {} \/ quiet < Debounce
  /\ quiet' = Min(quiet + TickMs, Debounce)
  /\ timers' = {[t EXCEPT !.remaining = IF @ > TickMs THEN @ - TickMs ELSE 0] : t \in timers}
  /\ UNCHANGED <<envVars, headers, paddingTop, headerReqs, clickAway, initPc,
                 loaderVars, searchDebounceTimer, location, event, burst, burstEvals,
                 lastEval, lastRender>>

\* lines 55-65: the debounced evaluation runs
TimerFire(t) ==
  /\ Live
  /\ t \in timers
  /\ t.remaining = 0
  /\ LET raw == ToLowerCase(Trim(headers[Len(headers) - t.el + 1].value))
     IN  /\ event' = "timer"
         /\ timers' = timers \ {t}
         /\ burstEvals' = burstEvals + 1
         /\ IF raw = <<>>
            THEN /\ headers' = RenderSearchResults(headers, <<>>)
                 /\ lastEval' = [some |-> TRUE, raw |-> raw, called |-> FALSE]
                 /\ lastRender' = NoRender
                 /\ UNCHANGED loaderVars
            ELSE IF IsCached
            THEN /\ headers' = RenderSearchResults(headers, Matches(searchPokedex, raw))
                 /\ lastEval' = [some |-> TRUE, raw |-> raw, called |-> TRUE]
                 /\ lastRender' = [some |-> TRUE, raw |-> raw, pokedex |-> searchPokedex]
                 /\ ReturnCached
            ELSE /\ Len(calls) < MaxCalls
                 /\ IssueFetch([caller |-> "eval", stage |-> "fetch", raw |-> raw])
                 /\ lastEval' = [some |-> TRUE, raw |-> raw, called |-> TRUE]
                 /\ UNCHANGED <<headers, lastRender>>
  /\ UNCHANGED <<envVars, paddingTop, headerReqs, clickAway, initPc,
                 searchDebounceTimer, location, quiet, burst>>

\* lines 15-16: the response to fetch("data/pokedex.json") arrives, or none
PokedexResponse(i, outcome) ==
  /\ Live
  /\ calls[i].stage = "fetch"
  /\ event' = "other"
  /\ IF outcome = "ok"
     THEN /\ calls' = [calls EXCEPT ![i].stage = "json"]
          /\ UNCHANGED <<searchPokedex, fetchCount, lateFetches, lastLoad, returned,
                         headers, initPc, lastRender>>
     ELSE Settle(i, LoadCatch, "failed")
  /\ UNCHANGED <<envVars, paddingTop, headerReqs, clickAway, debVars, location>>

\* line 17: res.json() settles
PokedexJson(i, outcome) ==
  /\ Live
  /\ calls[i].stage = "json"
  /\ event' = "other"
  /\ IF outcome = "ok"
     THEN Settle(i, LoadParsed(Mapping(pokedexFile)), "ok")
     ELSE Settle(i, LoadCatch, "failed")
  /\ UNCHANGED <<envVars, paddingTop, headerReqs, clickAway, debVars, location>>

----------------------------------------------------------------------------
(* Keys and clicks. *)

\* lines 135-142: the document's click listener, for a click whose target is
\* inside the first results container, is the first search input, or neither
ClickAway(hs, inBox, onInput) ==
  IF clickAway /\ hs # <<>> /\ ~inBox /\ ~onInput
  THEN [hs EXCEPT ![1].display = "none"]
  ELSE hs

\* the rest of the page when a handler has run without navigating
Stay ==
  UNCHANGED <<envVars, paddingTop, headerReqs, clickAway, initPc, loaderVars,
              debVars, location, lastRender>>

\* lines 122-132: Enter in the first search input
Enter ==
  /\ Live
  /\ headers # <<>>
  /\ event' = "enter"
  /\ LET holder == FirstResultHolder(headers)
         val == Trim(headers[1].value)
     IN  IF headers[1].keyWired /\ holder # 0
         THEN Unload(RowClickUrl(headers[holder].rows[1]))
         ELSE IF headers[1].keyWired /\ val # <<>>
         THEN Unload(DetailUrl(EncodeURIComponent(val)))
         ELSE UNCHANGED headers /\ Stay

\* the rows the model lets the user click: the first and the last
RowChoices == IF headers = <<>> THEN {} ELSE {1, Len(headers[1].rows)}

\* a click on a result row the user can see
ClickRow(k) ==
  /\ Live
  /\ headers # <<>>
  /\ headers[1].display = "block"
  /\ k \in 1..Len(headers[1].rows)
  /\ event' = "click-row"
  /\ Unload(RowClickUrl(headers[1].rows[k]))

\* a click elsewhere while the results show: on the search input, inside the
\* results container but on no row, or outside both
Click(target) ==
  /\ Live
  /\ headers # <<>>
  /\ headers[1].display = "block"
  /\ event' = (IF target = "outside" THEN "click-outside" ELSE "click-inside")
  /\ headers' = ClickAway(headers, target = "box", target = "input")
  /\ Stay

Next ==
  \/ DomReady
  \/ \E i \in 1..Len(headerReqs) : \E o \in {"ok", "notok", "neterr"} : HeaderResponse(i, o)
  \/ \E i \in 1..Len(headerReqs) : \E o \in {"root", "noroot", "error"} : HeaderText(i, o)
  \/ \E v \in Queries : Input(v)
  \/ Tick
  \/ \E t \in timers : TimerFire(t)
  \/ \E i \in 1..Len(calls) : \E o \in {"ok", "notok", "neterr"} : PokedexResponse(i, o)
  \/ \E i \in 1..Len(calls) : \E o \in {"ok", "badjson"} : PokedexJson(i, o)
  \/ Enter
  \/ \E k \in RowChoices : ClickRow(k)
  \/ \E target \in {"input", "box", "outside"} : Click(target)

Spec == Init /\ [][Next]_vars

\* the event loop runs what is ready: DOMContentLoaded is delivered, time
\* passes, a due timer's callback runs, and every fetch gets its answer
Fairness ==
  /\ WF_vars(DomReady)
  /\ WF_vars(Tick)
  /\ WF_vars(\E t \in timers : TimerFire(t))
  /\ WF_vars(\E i \in 1..Len(headerReqs) : \E o \in {"ok", "notok", "neterr"} : HeaderResponse(i, o))
  /\ WF_vars(\E i \in 1..Len(headerReqs) : \E o \in {"root", "noroot", "error"} : HeaderText(i, o))
  /\ WF_vars(\E i \in 1..Len(calls) : \E o \in {"ok", "notok", "neterr"} : PokedexResponse(i, o))
  /\ WF_vars(\E i \in 1..Len(calls) : \E o \in {"ok", "badjson"} : PokedexJson(i, o))

SpecFair == Spec /\ Fairness

----------------------------------------------------------------------------
(* setActiveHeaderLink on its own: a page whose header is already in the    *)
(* document, with any of the five links and any of them marked active, and  *)
(* installHeaderFromFile called on it (lines 93-96).                        *)

Paths ==
  { <<"/", "m", "o", "v", "e", "s", ".", "h", "t", "m", "l">>,
    <<"/", "m", "o", "v", "e", "d", "e", "s", "c", "r", "i", "p", "t", "i", "o", "n", "s">>,
    <<"/", "i", "n", "f", "o", ".", "h", "t", "m", "l">>,
    <<"/", "i", "n", "d", "e", "x", ".", "h", "t", "m", "l">>,
    <<"/">>,
    <<"/", "t", "r", "a", "i", "n", "e", "r">>,
    <<"/", "t", "r", "a", "i", "n", "e", "r", "s", ".", "h", "t", "m", "l">>,
    <<"/", "e", "n", "c", "o", "u", "n", "t", "e", "r", "s">>,
    <<"/", "l", "o", "c", "a", "t", "i", "o", "n", "s">>,
    <<"/", "a", "b", "i", "l", "i", "t", "i", "e", "s">>,
    <<"/", "p", "o", "k", "e", "m", "o", "n", ".", "h", "t", "m", "l">>,
    <<"/", "m", "o", "v", "e", "s", "/">>,
    <<"/", "i", "n", "f">>,
    <<"/", "i", "n", "f", "o", "/", "a", "b", "i", "l", "i", "t", "i", "e", "s">>,
    <<"/", "M", "o", "v", "e", "s">>,
    <<"/", "a", "b", "i", "l", "i", "t", "i", "e", "s", "/", "i", "n", "f", "o", ".", "h", "t", "m", "l">>,
    <<"/", "i", "n", "d", "e", "x", "e", "s">>,
    <<"/", "t", "r", "a", "i", "n", "e", "r", "m", "o", "v", "e", "s">> }

\* the headers a page may carry: header.html's root with some of the links,
\* some of them marked active, or the synthesized one, which has none
PageHeaders ==
  UNION { { [NewHeader("fetched", L) EXCEPT !.active = A] : A \in SUBSET L }
          : L \in SUBSET LinkIds }
    \cup {NewHeader("fallback", {})}

InitLink ==
  /\ pathname \in Paths
  /\ pokedexFile = SmallIndex
  /\ rootHeight = 40
  /\ \E h \in PageHeaders : headers = <<h>>
  /\ paddingTop = 0
  /\ FreshScript

\* lines 91-96: installHeaderFromFile finds the header in the document
InstallCall ==
  /\ Live
  /\ headers # <<>>
  /\ event' = "install"
  /\ headers' = SetActiveHeaderLink(headers, pathname)
  /\ Stay

NextLink == InstallCall

SpecLink == InitLink /\ [][NextLink]_vars

----------------------------------------------------------------------------
(* installHeaderFromFile called by scripts of the page as well as by the    *)
(* DOMContentLoaded handler, on a page whose stylesheet gives the body some *)
(* top padding.                                                             *)

Paddings == {0, 30, 40, 48, 68, 90}

InitInstall ==
  /\ pathname = MainPath
  /\ pokedexFile = SmallIndex
  /\ rootHeight \in Heights
  /\ headers = <<>>
  /\ paddingTop \in Paddings
  /\ FreshScript

\* lines 91-98: a script of the page calls installHeaderFromFile()
PageInstall ==
  /\ Live
  /\ event' = "install"
  /\ IF headers # <<>>
     THEN /\ headers' = SetActiveHeaderLink(headers, pathname)
          /\ UNCHANGED headerReqs
     ELSE /\ Len(headerReqs) < MaxInstalls
          /\ headerReqs' = Append(headerReqs, [caller |-> "page", stage |-> "fetch"])
          /\ UNCHANGED headers
  /\ UNCHANGED <<envVars, paddingTop, clickAway, initPc, loaderVars, debVars,
                 location, lastRender>>

NextInstall ==
  \/ DomReady
  \/ PageInstall
  \/ \E i \in 1..Len(headerReqs) : \E o \in {"ok", "notok", "neterr"} : HeaderResponse(i, o)
  \/ \E i \in 1..Len(headerReqs) : \E o \in {"root", "noroot", "error"} : HeaderText(i, o)
  \/ \E i \in 1..Len(calls) : \E o \in {"ok", "notok", "neterr"} : PokedexResponse(i, o)
  \/ \E i \in 1..Len(calls) : \E o \in {"ok", "badjson"} : PokedexJson(i, o)

SpecInstall == InitInstall /\ [][NextInstall]_vars

----------------------------------------------------------------------------
(* The claims. *)

\* the first header's search input and results container
FrontValue == headers[1].value
FrontNames == [i \in 1..Len(headers[1].rows) |-> headers[1].rows[i].name]
FrontHidden ==
  /\ headers[1].display = "none"
  /\ headers[1].rows = <<>>
  /\ headers[1].ariaHidden = "true"

\* C1: the loadSearchPokedex calls made before the first of them resolved
\* (every call that found no cached mapping) issue one fetch of
\* data/pokedex.json between them and all receive the same mapping
C1_SingleFlight ==
  /\ fetchCount <= 1
  /\ Cardinality(returned) <= 1

\* C2: once window._searchPokedex holds a mapping, no step of the page
\* session changes it
C2_WrittenOnce ==
  [][(Truthy(searchPokedex) /\ ~location'.nav) => searchPokedex' = searchPokedex]_vars

\* C3: a loadSearchPokedex call never settles as rejected, and one whose
\* fetch failed (no response, a response that is not OK, a body that is not
\* JSON) resolves to the empty mapping, which is then the cached one
C3_NeverRejects ==
  /\ lastLoad.settled # "rejected"
  /\ lastLoad.outcome = "failed" =>
       /\ lastLoad.settled = "resolved"
       /\ lastLoad.value = EmptyMapping
       /\ searchPokedex = EmptyMapping

C3_Witness ==
  /\ lastLoad.outcome = "failed"
  /\ lastLoad.value = EmptyMapping
  /\ initPc = "done"

\* C4: no fetch of data/pokedex.json is issued once a loadSearchPokedex call
\* has settled, and a call answered from the cache returns the cached mapping
C4_CachedAfterSettle ==
  /\ lateFetches = 0
  /\ lastLoad.outcome = "cached" =>
       /\ lastLoad.settled = "resolved"
       /\ Truthy(lastLoad.value)
       /\ lastLoad.value = searchPokedex

C4_Witness ==
  /\ lastLoad.outcome = "cached"
  /\ lastLoad.value = EmptyMapping
  /\ fetchCount = 2

\* C5: at most one evaluation is pending; while a burst of input events goes
\* on (each less than 120 ms after the one before) no evaluation runs and the
\* pending one is due 120 ms after the last event; once that has run, it is
\* the only evaluation of the burst and it read the input's final value
C5_TrailingDebounce ==
  /\ Cardinality(timers) <= 1
  /\ burstEvals <= 1
  /\ burst # "none" =>
       \/ /\ burstEvals = 1
          /\ timers = {}
          /\ quiet >= Debounce
          /\ lastEval.some
          /\ lastEval.raw = ToLowerCase(Trim(FrontValue))
       \/ /\ burstEvals = 0
          /\ \E t \in timers : timers = {t} /\ t.remaining = Debounce - quiet

C5_Witness ==
  /\ burst = "many"
  /\ burstEvals = 1
  /\ timers = {}
  /\ lastEval.raw = <<"a", "b">>

\* names is the first ResultCap, or fewer, of the keys that contain q: the
\* key with k - 1 such keys before it is names[k], for k up to ResultCap
IsMatchList(names, keys, q) ==
  LET hit == [i \in 1..Len(keys) |-> Includes(ToLowerCase(keys[i]), q)]
      rank == [i \in 1..Len(keys) |-> Cardinality({j \in 1..i : hit[j]})]
      total == Cardinality({j \in 1..Len(keys) : hit[j]})
  IN  /\ Len(names) = Min(ResultCap, total)
      /\ \A i \in 1..Len(keys) :
           (hit[i] /\ rank[i] <= ResultCap) => names[rank[i]] = keys[i]

\* C6: the rendered list is the first 15, or fewer, keys of the index, in key
\* order, whose lower-cased form contains the lower-cased trimmed query,
\* whatever the letter-casing of the text in the input
C6_MatchList ==
  /\ (Live /\ lastRender.some) =>
       IsMatchList(FrontNames, lastRender.pokedex.keys, lastRender.raw)
  /\ (Live /\ event = "timer" /\ lastEval.called /\ lastLoad.outcome = "cached") =>
       /\ lastRender.some
       /\ IsMatchList(FrontNames, searchPokedex.keys, ToLowerCase(Trim(FrontValue)))

C6_Witness ==
  /\ event = "timer"
  /\ lastLoad.outcome = "cached"
  /\ FrontValue = <<" ", "A", "b", " ">>
  /\ Len(FrontNames) = ResultCap
  /\ Len(SelectSeq(searchPokedex.keys, LAMBDA n : Includes(ToLowerCase(n), <<"a", "b">>)))
       > ResultCap

AllSpaces(v) == \A i \in 1..Len(v) : v[i] = " "

\* C7: when the debounced evaluation has run on an empty or whitespace-only
\* input, the container is hidden and empty with aria-hidden true, and the
\* evaluation did not call the index loader
C7_EmptyQueryHides ==
  /\ (Live /\ event = "timer" /\ AllSpaces(FrontValue)) =>
       /\ FrontHidden
       /\ lastEval.some
       /\ ~lastEval.called
  /\ \A i \in 1..Len(calls) : calls[i].caller = "eval" => calls[i].raw # <<>>

C7_Witness ==
  /\ event = "timer"
  /\ FrontValue = <<" ">>
  /\ lastLoad.outcome = "cached"
  /\ lastLoad.value = Mapping(BigIndex)
  /\ FrontHidden

\* where Enter is to lead: the first rendered result, else the trimmed text
EnterTarget ==
  LET holder == FirstResultHolder(headers)
      val == Trim(FrontValue)
  IN  IF holder # 0
      THEN DetailUrl(EncodeURIComponent(headers[holder].rows[1].name))
      ELSE IF val # <<>> THEN DetailUrl(EncodeURIComponent(val)) ELSE NoNav

\* C8: with the header installed, Enter in the search input navigates to the
\* first rendered result if there is one, else to the trimmed text if there
\* is some, else nowhere
C8_EnterNavigates ==
  [][(event' = "enter" /\ event # "enter" /\ headers # <<>> /\ headerReqs = <<>>)
       => location' = EnterTarget]_vars

Visible == headers # <<>> /\ headers[1].display = "block"

\* C9: the panel is hidden by a click outside the input and the container
\* and kept by a click on either; it becomes visible only by the rendering of
\* a non-empty match list, and hidden only by a click outside, an evaluation
\* of an empty query or the rendering of an empty match list
C9_PanelStates ==
  [][/\ (event' = "click-outside" /\ event # "click-outside") => ~Visible'
     /\ (event' = "click-inside" /\ event # "click-inside") => (Visible' <=> Visible)
     /\ (~Visible /\ Visible') =>
          /\ event' \in {"timer", "other"}
          /\ lastRender'.some
          /\ headers'[1].rows # <<>>
     /\ (Visible /\ ~Visible' /\ ~location'.nav) =>
          \/ event' = "click-outside"
          \/ event' = "timer" /\ lastEval'.raw = <<>>
          \/ event' \in {"timer", "other"} /\ lastRender'.some /\ headers'[1].rows = <<>>
    ]_vars

\* the part of p after its last "/"
FileOf(p) ==
  LET slashes == {i \in 1..Len(p) : p[i] = "/"}
      last == IF slashes = {} THEN 0
              ELSE CHOOSE i \in slashes : \A j \in slashes : j <= i
  IN  IF last = Len(p) THEN S_index_html ELSE SubSeq(p, last + 1, Len(p))

\* the prefix rules, in their order
Rules ==
  << [prefixes |-> {S_info}, link |-> "link-info"],
     [prefixes |-> {S_index}, link |-> "link-pokedex"],
     [prefixes |-> {S_moves, S_movedescriptions}, link |-> "link-moves"],
     [prefixes |-> {S_locations, S_trainer, S_encounters}, link |-> "link-locations"],
     [prefixes |-> {S_abilities}, link |-> "link-abilities"] >>

RuleMatches(file, i) == \E q \in Rules[i].prefixes : StartsWith(file, q)

\* the link of the first rule that matches, the pokedex link when none does
RuleLink(file) ==
  IF \E i \in 1..Len(Rules) : RuleMatches(file, i)
  THEN Rules[CHOOSE i \in 1..Len(Rules) :
               RuleMatches(file, i) /\ \A j \in 1..(i - 1) : ~RuleMatches(file, j)].link
  ELSE "link-pokedex"

\* the nav links document.getElementById finds, and those of them marked active
PresentLinks == {id \in LinkIds : LinkHolder(headers, id) # 0}
ActiveLinks ==
  {id \in PresentLinks : id \in headers[LinkHolder(headers, id)].active}

\* C10 as stated: after setActiveHeaderLink exactly one of the five links is
\* marked active, the one the prefix rules choose for the page's file name
C10_ExactlyOne ==
  event = "install" => ActiveLinks = {RuleLink(FileOf(pathname))}

\* C10, amended: after setActiveHeaderLink the link the prefix rules choose
\* is marked active if the document has it, and no other link is; with all
\* five links in the document exactly one is marked active
C10_ChosenLinkIfPresent ==
  event = "install" =>
    /\ ActiveLinks = {RuleLink(FileOf(pathname))} \cap PresentLinks
    /\ PresentLinks = LinkIds => Cardinality(ActiveLinks) = 1

C10_Witness ==
  /\ event = "install"
  /\ PresentLinks = LinkIds
  /\ FileOf(pathname) = S_movedescriptions
  /\ ActiveLinks = {"link-moves"}

\* what the listeners of a header respond to
Wiring(hs) == [i \in 1..Len(hs) |-> <<hs[i].inputWired, hs[i].keyWired>>]

\* C11: however many times installHeaderFromFile is called, also while an
\* earlier call's fetch is pending, the document never has two headers and
\* has one once every call has resolved; a call that finds the header there
\* fetches nothing, inserts nothing and wires nothing
C11_Idempotent ==
  [][/\ Len(headers') <= 1
     /\ (headerReqs' = <<>> /\ (initPc' # "idle" \/ event' = "install"))
          => Len(headers') = 1
     /\ (event' = "install" /\ headers # <<>>) =>
          /\ headerReqs' = headerReqs
          /\ Len(headers') = Len(headers)
          /\ Wiring(headers') = Wiring(headers)
          /\ clickAway' = clickAway
          /\ fetchCount' = fetchCount
    ]_vars

\* the synthesized header as inserted: a search input and an empty container
IsMinimalHeader(h) ==
  /\ h.kind = "fallback"
  /\ h.value = <<>>
  /\ h.rows = <<>>
  /\ h.ariaHidden = "true"

\* C12: whenever a call of installHeaderFromFile resolves, whatever became of
\* its fetch, it has put a header first in the body: the synthesized one if
\* the response was not OK or did not come, the fetched root or (the body
\* failing to arrive) the synthesized one otherwise; the caller never sees a
\* rejection
C12_HeaderOnEveryOutcome ==
  [][(Len(headerReqs') < Len(headerReqs) /\ ~location'.nav) =>
       /\ Len(headers') = Len(headers) + 1
       /\ headers'[1].kind = "fetched" \/ IsMinimalHeader(headers'[1])
       /\ headerReqs[1].stage = "fetch" => IsMinimalHeader(headers'[1])
       /\ initPc' \in {"index", "done"}
    ]_vars

\* C13: once a header is in the document, by the fetched or the synthesized
\* path, its search input has the input listener and the keydown listener
\* and the document has the click listener that closes the results
C13_HandlersWired ==
  (Live /\ headers # <<>>) =>
    /\ headers[1].inputWired
    /\ headers[1].keyWired
    /\ clickAway

\* C14: while the header fetch of the DOMContentLoaded handler is unresolved
\* the handler waits for it: no fetch of data/pokedex.json has been issued,
\* no loadSearchPokedex call is pending and no link has been marked active
C14_InstallFirst ==
  headerReqs # <<>> =>
    /\ initPc = "header"
    /\ fetchCount = 0
    /\ calls = <<>>
    /\ \A i \in 1..Len(headers) : headers[i].active = {}

C14_Witness ==
  /\ headerReqs = <<>>
  /\ initPc = "index"
  /\ fetchCount = 1
  /\ Len(calls) = 1
  /\ calls[1].caller = "preload"
  /\ headers # <<>>
  /\ headers[1].active = {"link-moves"}

\* the queries a suspended evaluation may carry
EvalQueries == {ToLowerCase(Trim(v)) : v \in Queries} \ {<<>>}

EvalPending(q) == \E i \in 1..Len(calls) : calls[i].caller = "eval" /\ calls[i].raw = q

\* C15: with every fetch answered, the DOMContentLoaded handler comes to its
\* end with the header installed and the index cache set, and every
\* evaluation suspended in the loader comes to render its match list, unless
\* a navigation replaces the page first
C15_NoEndlessWait ==
  /\ (initPc \in {"idle", "header", "index"}) ~>
       (~Live \/ (initPc = "done" /\ headers # <<>> /\ Truthy(searchPokedex)))
  /\ \A q \in EvalQueries :
       EvalPending(q) ~> (~Live \/ (lastRender.some /\ lastRender.raw = q))

\* C16: whichever of the five links the document lacks, after
\* setActiveHeaderLink no link it has, other than the one the prefix rules
\* select, is marked active, and if it lacks the selected one none is
C16_ToleratesAbsent ==
  event = "install" =>
    /\ \A id \in PresentLinks \ {RuleLink(FileOf(pathname))} : id \notin ActiveLinks
    /\ RuleLink(FileOf(pathname)) \notin PresentLinks =>
         \A i \in 1..Len(headers) : headers[i].active = {}

C16_Witness ==
  /\ event = "install"
  /\ PresentLinks = {"link-info", "link-abilities"}
  /\ RuleLink(FileOf(pathname)) = "link-locations"
  /\ ActiveLinks = {}

\* C17: when the fetched root has been inserted, the body's top padding is
\* at least the root's height: it is the height (68 for a measured 0) plus 8
\* if it was less than that height before, and what it was otherwise
C17_PaddingCoversHeader ==
  [][(Len(headers') = Len(headers) + 1 /\ headers'[1].kind = "fetched") =>
       LET measured == headers'[1].height
           headerHeight == IF measured = 0 THEN 68 ELSE measured
       IN  /\ paddingTop' >= measured
           /\ paddingTop < headerHeight => paddingTop' = headerHeight + 8
           /\ paddingTop >= headerHeight => paddingTop' = paddingTop
    ]_vars

C17_Witness ==
  /\ headers # <<>>
  /\ headers[1].kind = "fetched"
  /\ headers[1].height = 0
  /\ paddingTop = 76

\* no evaluation is suspended in the loader
EvalsSettled == \A i \in 1..Len(calls) : calls[i].caller # "eval"

\* C18: once no evaluation is suspended, the container shows what the
\* evaluation that fired last computed: hidden and empty if it read an empty
\* query, else the match list of the query it read, over a mapping the
\* loader handed out
C18_LatestWins ==
  (Live /\ headers # <<>> /\ lastEval.some /\ EvalsSettled) =>
    IF lastEval.raw = <<>>
    THEN FrontHidden
    ELSE \E pokedex \in returned \cup {searchPokedex} :
           FrontNames = Matches(pokedex, lastEval.raw)

\* C19: when Enter navigates to the first rendered result, the results are
\* visible and that result's lower-cased name contains the input's trimmed
\* lower-cased text as it is at the key press
C19_EnterFreshResult ==
  [][(event' = "enter" /\ ~location.nav /\ location'.nav
        /\ FirstResultHolder(headers) # 0) =>
       /\ Visible
       /\ Includes(ToLowerCase(headers[FirstResultHolder(headers)].rows[1].name),
                   ToLowerCase(Trim(FrontValue)))
    ]_vars

\* C20: the results container is shown exactly when its aria-hidden is
\* false, and holds no result row while it is not shown
C20_AriaAgrees ==
  \A i \in 1..Len(headers) :
    /\ headers[i].display = "block" <=> headers[i].ariaHidden = "false"
    /\ headers[i].display # "block" => headers[i].rows = <<>>

====
